---- MODULE Spec2Model ----
(***************************************************************************)
(* Model of clipper.py: an FFmpeg process writes segments buf-NNNNN.ts     *)
(* into the buffer directory, Recorder._cleanup_loop prunes the oldest     *)
(* ones, and ClipAssembler.save_clip (one daemon thread per hotkey press)  *)
(* concatenates the newest ones into a clip.                               *)
(*                                                                         *)
(* A segment is identified by the order in which FFmpeg wrote it: the      *)
(* segment muxer closes one segment before it opens the next, so the       *)
(* st_mtime the code sorts by increases with that order.                   *)
(* An output file name f"{ts}_{length}s_{title}.mp4" is the tuple          *)
(* <<ts, length, title>>: ts has a fixed width and length is a run of      *)
(* digits ended by "s_", so the format is injective on these tuples.       *)
(* Disk space is counted in MB.                                            *)
(***************************************************************************)
EXTENDS Integers, Sequences, FiniteSets, TLC

\* ---------------------------------------------------------------- bounds
MaxSeg == 4          \* segments FFmpeg writes in a run of the model
MaxSaves == 2        \* save_clip calls (one thread each)
MaxTime == 1         \* seconds the wall clock advances between saves
MaxLen == 3          \* characters of a window title given to the sanitizer
MaxStarts == 2       \* start() calls on one Recorder

\* ------------------------------------------------------- program constants
SafetyFactor == 3            \* capacity multiplier
LowPruneDivisor == 10        \* "10% oldest buffer"
AssemblyFloorMB == 300       \* 300 * 1024 * 1024 bytes
MinFreeGB == 2               \* Config.min_free_gb
MBPerGB == 1024
NameLimit == 80              \* s[:80]

\* ------------------------------------------------------------ input sets
ClipLengths == {1, 3}
SegmentTimes == {1, 2}
Durations == {-1, 0, 2}                  \* length_seconds given to save_clip
FreeLevels == {100, 1000, 4096}          \* free MB on the clips volume
Titles == {"game", "untitled"}           \* sanitized active window titles
Savers == 1..MaxSaves
NoPath == <<>>

\* ------------------------------------------------------------ arithmetic
Max(a, b) == IF a >= b THEN a ELSE b
Min(a, b) == IF a <= b THEN a ELSE b

\* int(a / b) of Python for b > 0: true division, then truncation toward 0.
PyIntDiv(a, b) == IF a >= 0 THEN a \div b ELSE -((-a) \div b)

\* The mathematical ceiling of a / b for b > 0 (\div is the floor).
CeilDiv(a, b) == -((-a) \div b)

\* ------------------------------------------------------------- sequences
mtime(p) == p

RECURSIVE SortByMtime(_)
SortByMtime(S) ==
  IF S = {} THEN <<>>
  ELSE LET o == CHOOSE x \in S : \A y \in S : mtime(x) <= mtime(y)
       IN  <<o>> \o SortByMtime(S \ {o})

Reverse(s) == [i \in 1..Len(s) |-> s[Len(s) + 1 - i]]

\* s[:n] of Python for n >= 0
Prefix(s, n) == SubSeq(s, 1, Min(n, Len(s)))

Range(s) == {s[i] : i \in 1..Len(s)}

\* ------------------------------------------------------------ characters
\* A string is the sequence of its characters. Tab stands for "\t" and
\* EAcute for U+00E9, a letter outside ASCII.
Tab == "TAB"
EAcute == "U+00E9"

\* The characters window titles are made of here
Chars == {"a", "_", ".", " ", Tab, "#", EAcute}

\* Window titles of at most MaxLen characters
RECURSIVE Strings(_)
Strings(n) ==
  IF n = 0 THEN {<<>>}
  ELSE LET S == Strings(n - 1) IN
         S \cup {Append(x, c) : x \in {y \in S : Len(y) = n - 1}, c \in Chars}

\* The placeholder "untitled"
Untitled == <<"u", "n", "t", "i", "t", "l", "e", "d">>

\* [A-Za-z0-9_], as far as the characters in use go
AsciiWord == {"a", "_", "u", "n", "t", "i", "l", "e", "d"}

\* \s of a str pattern, and the characters str.strip() removes
IsSpace(c) == c \in {" ", Tab}

\* \w of a str pattern: the pattern is compiled without re.ASCII, so every
\* Unicode letter and digit is a word character, as is "_"
IsWord(c) == c \in AsciiWord \cup {EAcute}

\* a character the class [^\w\-\. ] does not match
IsKept(c) == IsWord(c) \/ c \in {"-", ".", " "}

RECURSIVE LStrip(_)
LStrip(s) ==
  IF s # <<>> /\ IsSpace(Head(s)) THEN LStrip(Tail(s)) ELSE s

RECURSIVE RStrip(_)
RStrip(s) ==
  IF s # <<>> /\ IsSpace(s[Len(s)]) THEN RStrip(SubSeq(s, 1, Len(s) - 1))
  ELSE s

\* s.strip()
Strip(s) == RStrip(LStrip(s))

\* re.sub(r"\s+", " ", s)
RECURSIVE CollapseSpaces(_)
CollapseSpaces(s) ==
  IF s = <<>> THEN <<>>
  ELSE IF IsSpace(Head(s)) THEN <<" ">> \o CollapseSpaces(LStrip(s))
  ELSE <<Head(s)>> \o CollapseSpaces(Tail(s))

\* re.sub(r"[^\w\-\. ]+", "", s)
RemoveOthers(s) == SelectSeq(s, IsKept)

\* s.replace(" ", "_")
ReplaceSpaces(s) == [i \in 1..Len(s) |-> IF s[i] = " " THEN "_" ELSE s[i]]

\* sanitize_filename_component(s)
sanitize_filename_component(s) ==
  LET t == Strip(s) IN
    IF t = <<>> THEN Untitled
    ELSE Prefix(ReplaceSpaces(RemoveOthers(CollapseSpaces(t))), NameLimit)

VARIABLES
  raw,            \* sanitizer: the string it is given
  clean,          \* sanitizer: its result
  again,          \* sanitizer: its result on its own result
  tpc,            \* sanitizer: "none", "given", "once" or "twice"
  cfg,            \* Config: clip_length, segment_time
  psutil,         \* whether the psutil import succeeded
  proc,           \* Recorder.proc: "none" or "running"
  ffmpeg,         \* the capture process: "absent" before Popen, "running",
                  \* "dying" (kill sent, not yet dead) or "exited"
  earlier,        \* the capture processes of earlier start() calls, whose
                  \* handle a later start() has overwritten
  threads,        \* the cleanup threads of earlier start() calls still alive
  mpc,            \* main thread: position
  shutdown,       \* main's stop_event, set by handle_signal
  spc,            \* status thread: position
  stop_event,     \* Recorder.stop_event
  segs,           \* buf-*.ts files in the buffer directory
  nextSeg,        \* the next segment FFmpeg writes
  manifests,      \* concat list files in the buffer directory
  clips,          \* files in the clips directory: name -> "complete" | "partial"
  clipsDir,       \* whether the clips directory exists
  lastTs,         \* the latest second a save_clip call read from the clock
  lock,           \* ClipAssembler.lock: 0 or the saver holding it
  cpc,            \* cleanup thread: position
  capacity,       \* cleanup thread: local capacity
  csegs,          \* cleanup thread: local segs, sorted oldest first
  cq,             \* cleanup thread: segments still to unlink in the running loop
  clow,           \* cleanup thread: the low-disk branch ran in this tick
  cerr,           \* cleanup thread: an exception was swallowed in this tick
  pc,             \* saver thread: position
  req,            \* saver thread: length_seconds
  globbed,        \* saver thread: the paths glob returned
  chosen,         \* saver thread: local chosen
  out,            \* saver thread: out_path
  obs,            \* saver thread: the second, length and title it named out by
  result,         \* saver thread: how save_clip ended
  ran,            \* saver thread: the FFmpeg commands this call has run
  notified        \* the paths notify() announced, in order

vars == <<raw, clean, again, tpc, cfg, psutil, proc, ffmpeg, earlier, threads, mpc, shutdown, spc, stop_event, segs,
          nextSeg, manifests, clips, clipsDir, lastTs, lock, cpc, capacity,
          csegs, cq, clow, cerr,
          pc, req, globbed, chosen, out, obs, result, ran, notified>>

titleVars == <<raw, clean, again, tpc>>
apiVars == <<earlier, threads>>
envVars == <<lastTs>>
recVars == <<proc, ffmpeg, stop_event, nextSeg>>
mainVars == <<mpc, shutdown, spc>>
cleanVars == <<cpc, capacity, csegs, cq, clow, cerr>>
saveVars == <<pc, req, globbed, chosen, out, obs, result, ran, notified,
              lock>>
fileVars == <<segs, manifests, clips, clipsDir>>

InitProgram ==
  /\ cfg \in [clip_length : ClipLengths, segment_time : SegmentTimes]
  /\ psutil \in BOOLEAN
  /\ proc = "none"
  /\ ffmpeg = "absent"
  /\ earlier = <<>>
  /\ threads = 0
  /\ mpc = "init"
  /\ shutdown = FALSE
  /\ spc = "idle"
  /\ stop_event = FALSE
  /\ segs = {}
  /\ nextSeg = 1
  /\ manifests = {}
  /\ clips = [f \in {} |-> "complete"]
  /\ clipsDir \in BOOLEAN
  /\ lastTs = 0
  /\ lock = 0
  /\ cpc = "idle"
  /\ capacity = 0
  /\ csegs = <<>>
  /\ cq = <<>>
  /\ clow = FALSE
  /\ cerr = FALSE
  /\ pc = [t \in Savers |-> "idle"]
  /\ req = [t \in Savers |-> 0]
  /\ globbed = [t \in Savers |-> {}]
  /\ chosen = [t \in Savers |-> <<>>]
  /\ out = [t \in Savers |-> NoPath]
  /\ obs = [t \in Savers |-> NoPath]
  /\ result = [t \in Savers |-> "none"]
  /\ ran = [t \in Savers |-> <<>>]
  /\ notified = <<>>

\* The program as main constructs it; no title is being sanitized
Init ==
  /\ InitProgram
  /\ raw = <<>>
  /\ clean = <<>>
  /\ again = <<>>
  /\ tpc = "none"

\* A window title is handed to the sanitizer
InitTitle ==
  /\ InitProgram
  /\ raw \in Strings(MaxLen)
  /\ clean = <<>>
  /\ again = <<>>
  /\ tpc = "given"

\* ------------------------------------------------------- pure code pieces
\* capacity = int(clip_length / segment_time) * 3
Capacity(c) == PyIntDiv(c.clip_length, c.segment_time) * SafetyFactor

\* Mutant: the slice taken from the wrong end, segs[capacity:]
ToDeleteNewest(s, cap) == SubSeq(s, cap + 1, Len(s))

\* to_delete = segs[0 : len(segs) - capacity], taken when len(segs) > capacity
ToDelete(s, cap) == SubSeq(s, 1, Len(s) - cap)

\* count = max(1, len(segs) // 10); segs[:count]
LowPrune(s) == Prefix(s, Max(1, Len(s) \div LowPruneDivisor))

\* free_gb < min_free_gb, with free_gb = usage.free / 1024 ** 3
LowDisk(f) == f < MinFreeGB * MBPerGB

\* usage.free < 300 * 1024 * 1024
BelowFloor(f) == f < AssemblyFloorMB

\* psutil.disk_usage(clips_dir) returns instead of raising
UsageKnown == psutil /\ clipsDir

\* length = length_seconds or self.cfg.clip_length
Length(d, c) == IF d = 0 THEN c.clip_length ELSE d

\* Mutant: the division without the round-up, int(length / segment_time)
NeededSegmentsFloor(d, c) ==
  Max(1, PyIntDiv(Length(d, c), c.segment_time))

\* needed_segments = max(1, int((length + segment_time - 1) / segment_time))
NeededSegments(d, c) ==
  Max(1, PyIntDiv(Length(d, c) + c.segment_time - 1, c.segment_time))

\* segs = sorted(glob, key=mtime, reverse=True);
\* chosen = list(reversed(segs[:needed_segments]))
Chosen(G, needed) == Reverse(Prefix(Reverse(SortByMtime(G)), needed))

\* Mutant: a timestamp without the time of day, strftime("%Y%m%d")
OutPathDateOnly(ts, length, title) == <<0, length, title>>

\* filename = f"{ts}_{duration_lab}_{active_title}.mp4"
OutPath(ts, length, title) == <<ts, length, title>>

\* Mutant: save_clip without the lock
LockIgnored == TRUE

\* with self.lock: a blocking acquire, taken when the lock is free
LockFree == lock = 0

\* FFmpeg writing out_path with -y: the file is created or overwritten
WriteClip(c, f, st) == [x \in DOMAIN c \cup {f} |-> IF x = f THEN st ELSE c[x]]

\* Mutant: the finally block without the unlink
UnlinkManifestSkipped(ms, p) == ms

\* list_path.unlink(missing_ok=True)
UnlinkManifest(ms, p) == ms \ {p}

\* Mutant: the fallback command built for another manifest
ReencCmdOtherList(list_path, out_path) == <<"reenc", 0, out_path>>

\* reenc_cmd = [ffmpeg, "-y", "-f", "concat", ..., "-i", str(list_path),
\*              "-c:v", encoder, "-preset", preset, ..., str(out_path)]
ReencCmd(list_path, out_path) == <<"reenc", list_path, out_path>>

\* copy_cmd = [ffmpeg, "-y", "-f", "concat", ..., "-i", str(list_path),
\*             "-c", "copy", "-movflags", "+faststart", str(out_path)]
CopyCmd(list_path, out_path) == <<"copy", list_path, out_path>>

\* Mutant: a notification that is dropped
NotifyDropped(log, out_path) == log

\* notify(f"Clip saved: {out_path}")
Notify(log, out_path) == Append(log, out_path)

\* Mutant: the empty listing let through
NoSegmentsIgnored(G) == FALSE

\* if not segs:
NoSegments(G) == G = {}

\* -------------------------------------------------------------- Recorder
\* The recorder as stop() reads and writes it
RecState == [proc |-> proc, stop_event |-> stop_event, ffmpeg |-> ffmpeg]

\* self.proc.poll() is None: the process has not exited
Alive(f) == f \in {"running", "dying"}

\* Mutant: stop() without its first line, self.stop_event.set()
StopNoEvent(r, inTime) ==
  [proc |-> "none", stop_event |-> r.stop_event,
   ffmpeg |-> IF r.proc = "running" /\ Alive(r.ffmpeg)
                THEN (IF inTime THEN "exited" ELSE "dying") ELSE r.ffmpeg]

\* Mutant: the timeout handled without the kill
StopNoKill(r, inTime) ==
  [proc |-> "none", stop_event |-> TRUE,
   ffmpeg |-> IF r.proc = "running" /\ Alive(r.ffmpeg) /\ inTime
                THEN "exited" ELSE r.ffmpeg]

\* Mutant: stop() without its last line, self.proc = None
StopKeepsProc(r, inTime) ==
  [proc |-> r.proc, stop_event |-> TRUE,
   ffmpeg |-> IF r.proc = "running" /\ Alive(r.ffmpeg)
                THEN (IF inTime THEN "exited" ELSE "dying") ELSE r.ffmpeg]

\* stop(): stop_event.set(); if self.proc and self.proc.poll() is None:
\* terminate(), wait(timeout=5) and, on TimeoutExpired, kill(), which sends
\* the signal and does not wait for the process to die; self.proc = None.
\* inTime: the process exits within the 5 seconds.
Stop(r, inTime) ==
  [proc |-> "none", stop_event |-> TRUE,
   ffmpeg |-> IF r.proc = "running" /\ Alive(r.ffmpeg)
                THEN (IF inTime THEN "exited" ELSE "dying") ELSE r.ffmpeg]

\* ----------------------------------------------------------- environment
\* The FFmpeg recorder closes a segment and starts the next one.
Produce ==
  /\ Alive(ffmpeg)
  /\ nextSeg <= MaxSeg
  /\ segs' = segs \cup {nextSeg}
  /\ nextSeg' = nextSeg + 1
  /\ UNCHANGED <<titleVars, apiVars, cfg, psutil, mainVars, envVars, proc, ffmpeg, stop_event,
                 cleanVars, saveVars, manifests, clips, clipsDir>>

\* The capture process ends: FFmpeg fails on its own, or the kill arrives.
ProcExit ==
  /\ Alive(ffmpeg)
  /\ ffmpeg' = "exited"
  /\ UNCHANGED <<titleVars, apiVars, cfg, psutil, mainVars, envVars, proc, stop_event, nextSeg,
                 cleanVars, saveVars, fileVars>>

\* handle_signal: stop_event.set(), for a signal that arrives while main
\* is in its wait loop
Signal ==
  /\ ~shutdown /\ mpc = "run"
  /\ shutdown' = TRUE
  /\ UNCHANGED <<titleVars, apiVars, cfg, psutil, mpc, spc, envVars, recVars, cleanVars, saveVars,
                 fileVars>>

\* ------------------------------------------------------------------ main
\* recorder.start(): Popen and the cleanup thread
RecorderStart ==
  /\ mpc = "init"
  /\ proc' = "running"
  /\ ffmpeg' = "running"
  /\ cpc' = "loop"
  /\ capacity' = Capacity(cfg)
  /\ mpc' = "started"
  /\ UNCHANGED <<titleVars, apiVars, cfg, psutil, shutdown, spc, envVars, stop_event, nextSeg,
                 csegs, cq, clow, cerr, saveVars, fileVars>>

\* hotkeys.start(); status_thr.start()
MainThreads ==
  /\ mpc = "started"
  /\ mpc' = "run"
  /\ spc' = "loop"
  /\ UNCHANGED <<titleVars, apiVars, cfg, psutil, shutdown, envVars, recVars, cleanVars, saveVars,
                 fileVars>>

\* while not stop_event.is_set(): time.sleep(0.5) ends; finally:
\* hotkeys.stop()
MainLoopExit ==
  /\ mpc = "run" /\ shutdown
  /\ mpc' = "finally"
  /\ UNCHANGED <<titleVars, apiVars, cfg, psutil, shutdown, spc, envVars, recVars, cleanVars,
                 saveVars, fileVars>>

\* recorder.stop(); logging.info("Goodbye."); return 0
RecorderStop ==
  /\ mpc = "finally"
  /\ \E inTime \in BOOLEAN :
       LET r == Stop(RecState, inTime) IN
         /\ proc' = r.proc
         /\ stop_event' = r.stop_event
         /\ ffmpeg' = r.ffmpeg
  /\ mpc' = "returned"
  /\ UNCHANGED <<titleVars, apiVars, cfg, psutil, shutdown, spc, envVars, nextSeg, cleanVars,
                 saveVars, fileVars>>

\* ------------------------------------------- the Recorder, called directly
\* The capture processes this Recorder has started
Started == Len(earlier) + (IF ffmpeg = "absent" THEN 0 ELSE 1)

\* start() on a Recorder in any state: nothing tests self.proc or
\* self.cleanup_thread; self.proc = Popen(...) and self.cleanup_thread =
\* Thread(...) replace the handles of an earlier call, whose process and
\* thread go on, and the stop event is not cleared.
ApiStart ==
  /\ mpc = "init"
  /\ Started < MaxStarts
  /\ earlier' = IF ffmpeg = "absent" THEN earlier ELSE Append(earlier, ffmpeg)
  /\ threads' = IF cpc \in {"idle", "exited"} THEN threads ELSE threads + 1
  /\ proc' = "running"
  /\ ffmpeg' = "running"
  /\ cpc' = "loop"
  /\ capacity' = Capacity(cfg)
  /\ csegs' = <<>> /\ cq' = <<>> /\ clow' = FALSE /\ cerr' = FALSE
  /\ UNCHANGED <<titleVars, cfg, psutil, mainVars, envVars, stop_event,
                 nextSeg, saveVars, fileVars>>

\* stop() on a Recorder in any state: it reaches the process self.proc
\* refers to and no other.
ApiStop ==
  /\ mpc = "init"
  /\ \E inTime \in BOOLEAN :
       LET r == Stop(RecState, inTime) IN
         /\ proc' = r.proc
         /\ stop_event' = r.stop_event
         /\ ffmpeg' = r.ffmpeg
  /\ UNCHANGED <<titleVars, apiVars, cfg, psutil, mainVars, envVars, nextSeg,
                 cleanVars, saveVars, fileVars>>

\* A capture process of an earlier start() ends: FFmpeg fails on its own, or
\* the kill arrives.
EarlierExit(i) ==
  /\ Alive(earlier[i])
  /\ earlier' = [earlier EXCEPT ![i] = "exited"]
  /\ UNCHANGED <<titleVars, threads, cfg, psutil, mainVars, envVars, recVars,
                 cleanVars, saveVars, fileVars>>

\* A cleanup thread of an earlier start() finds the stop event set at its
\* loop test.
EarlierThreadExit ==
  /\ threads > 0 /\ stop_event
  /\ threads' = threads - 1
  /\ UNCHANGED <<titleVars, earlier, cfg, psutil, mainVars, envVars, recVars,
                 cleanVars, saveVars, fileVars>>

\* ----------------------------------------------------------- status loop
\* while not stop_event.is_set(): count the segments, read the free space,
\* write the status line; every exception is swallowed
StatusTick ==
  /\ spc = "loop" /\ ~shutdown
  /\ spc' = "wait"
  /\ UNCHANGED <<titleVars, apiVars, cfg, psutil, mpc, shutdown, envVars, recVars, cleanVars,
                 saveVars, fileVars>>

\* stop_event.wait(2) returns
StatusWait ==
  /\ spc = "wait"
  /\ spc' = "loop"
  /\ UNCHANGED <<titleVars, apiVars, cfg, psutil, mpc, shutdown, envVars, recVars, cleanVars,
                 saveVars, fileVars>>

\* while not stop_event.is_set(): false; print()
StatusExit ==
  /\ spc = "loop" /\ shutdown
  /\ spc' = "exited"
  /\ UNCHANGED <<titleVars, apiVars, cfg, psutil, mpc, shutdown, envVars, recVars, cleanVars,
                 saveVars, fileVars>>

\* ---------------------------------------------------------- cleanup loop
\* while not stop_event.is_set(): false
CleanupExit ==
  /\ cpc = "loop" /\ stop_event
  /\ cpc' = "exited"
  /\ UNCHANGED <<titleVars, apiVars, cfg, psutil, mainVars, envVars, recVars, capacity, csegs, cq,
                 clow, cerr, saveVars, fileVars>>

\* segs = sorted(glob); if len(segs) > capacity: to_delete = ...
\* Only this thread unlinks segments, so no path vanishes between its glob
\* and its stat.
CleanupList ==
  /\ cpc = "loop" /\ ~stop_event
  /\ LET s == SortByMtime(segs) IN
       /\ csegs' = s
       /\ clow' = FALSE
       /\ IF Len(s) > capacity
            THEN cq' = ToDelete(s, capacity) /\ cpc' = "capdel"
            ELSE cq' = <<>> /\ cpc' = "disk"
  /\ UNCHANGED <<titleVars, apiVars, cfg, psutil, mainVars, envVars, recVars, capacity, cerr,
                 saveVars, fileVars>>

\* Mutant: the exception of the listing ends the thread
CleanupListErrorEscapes ==
  /\ cpc = "loop" /\ ~stop_event
  /\ cerr' = TRUE
  /\ cpc' = "exited"
  /\ UNCHANGED <<titleVars, apiVars, cfg, psutil, mainVars, envVars, recVars, capacity, csegs, cq,
                 clow, saveVars, fileVars>>

\* glob or stat raises (the directory is unreadable, a path is gone): the
\* outer except swallows it and the tick is over
CleanupListError ==
  /\ cpc = "loop" /\ ~stop_event
  /\ cerr' = TRUE
  /\ cpc' = "wait"
  /\ UNCHANGED <<titleVars, apiVars, cfg, psutil, mainVars, envVars, recVars, capacity, csegs, cq,
                 clow, saveVars, fileVars>>

\* for p in to_delete: p.unlink(missing_ok=True)
CleanupCapUnlink ==
  /\ cpc = "capdel"
  /\ segs' = segs \ {Head(cq)}
  /\ cq' = Tail(cq)
  /\ cpc' = IF Tail(cq) = <<>> THEN "disk" ELSE "capdel"
  /\ UNCHANGED <<titleVars, apiVars, cfg, psutil, mainVars, envVars, recVars, capacity, csegs,
                 clow, cerr, saveVars, manifests, clips, clipsDir>>

\* p.unlink raises: except Exception: pass, and the loop takes the next path
CleanupCapUnlinkError ==
  /\ cpc = "capdel"
  /\ cerr' = TRUE
  /\ cq' = Tail(cq)
  /\ cpc' = IF Tail(cq) = <<>> THEN "disk" ELSE "capdel"
  /\ UNCHANGED <<titleVars, apiVars, cfg, psutil, mainVars, envVars, recVars, capacity, csegs,
                 clow, saveVars, fileVars>>

\* if psutil: usage = disk_usage(...); if free_gb < min_free_gb and segs: ...
\* disk_usage raises when the clips directory does not exist; the inner
\* except swallows it.
CleanupDisk ==
  /\ cpc = "disk"
  /\ \E free \in FreeLevels :
       IF UsageKnown /\ LowDisk(free) /\ csegs # <<>>
         THEN cq' = LowPrune(csegs) /\ clow' = TRUE /\ cpc' = "lowdel"
         ELSE cq' = <<>> /\ clow' = clow /\ cpc' = "wait"
  /\ UNCHANGED <<titleVars, apiVars, cfg, psutil, mainVars, envVars, recVars, capacity, csegs,
                 cerr, saveVars, fileVars>>

\* self.stop_event.wait(5) returns; segs is not read again before the next
\* tick assigns it.
CleanupWait ==
  /\ cpc = "wait"
  /\ cpc' = "loop"
  /\ csegs' = <<>>
  /\ clow' = FALSE
  /\ cerr' = FALSE
  /\ UNCHANGED <<titleVars, apiVars, cfg, psutil, mainVars, envVars, recVars, capacity, cq,
                 saveVars, fileVars>>

\* for p in segs[:count]: p.unlink(missing_ok=True); then the warning
CleanupLowUnlink ==
  /\ cpc = "lowdel"
  /\ segs' = segs \ {Head(cq)}
  /\ cq' = Tail(cq)
  /\ cpc' = IF Tail(cq) = <<>> THEN "wait" ELSE "lowdel"
  /\ UNCHANGED <<titleVars, apiVars, cfg, psutil, mainVars, envVars, recVars, capacity, csegs,
                 clow, cerr, saveVars, manifests, clips, clipsDir>>

\* p.unlink raises in the low-disk loop: the inner except swallows it, and
\* the rest of the loop and the warning are skipped
CleanupLowUnlinkError ==
  /\ cpc = "lowdel"
  /\ cerr' = TRUE
  /\ cq' = <<>>
  /\ cpc' = "wait"
  /\ UNCHANGED <<titleVars, apiVars, cfg, psutil, mainVars, envVars, recVars, capacity, csegs,
                 clow, saveVars, fileVars>>

\* ------------------------------------------------------------- save_clip
\* threading.Thread(target=self.assembler.save_clip, args=(length,)).start()
\* Hotkeys are served between hotkeys.start() and hotkeys.stop().
\* Calls are numbered in the order they are issued.
Trigger(t, d) ==
  /\ pc[t] = "idle"
  /\ mpc = "run"
  /\ \A u \in Savers : u < t => pc[u] # "idle"
  /\ pc' = [pc EXCEPT ![t] = "wait"]
  /\ req' = [req EXCEPT ![t] = d]
  /\ UNCHANGED <<titleVars, apiVars, cfg, psutil, mainVars, envVars, recVars, cleanVars, fileVars, globbed,
                 chosen, out, obs, result, ran, notified, lock>>

\* save_clip is over: it returned out_path (kept in out) or None, or raised.
\* The thread's other locals are gone.
Return(t, how) ==
  /\ pc' = [pc EXCEPT ![t] = "done"]
  /\ result' = [result EXCEPT ![t] = how]
  /\ req' = [req EXCEPT ![t] = 0]
  /\ globbed' = [globbed EXCEPT ![t] = {}]
  /\ chosen' = [chosen EXCEPT ![t] = <<>>]
  /\ out' = [out EXCEPT ![t] = IF how = "saved" THEN @ ELSE NoPath]
  /\ obs' = [obs EXCEPT ![t] = IF how = "saved" THEN @ ELSE NoPath]
  /\ ran' = [ran EXCEPT ![t] = <<>>]
  /\ lock' = 0

\* with self.lock: (a blocking acquire), then
\* if psutil: ... if usage.free < 300 MB: return None
Acquire(t) ==
  /\ pc[t] = "wait"
  /\ LockFree
  /\ \E free \in FreeLevels :
       IF UsageKnown /\ BelowFloor(free)
         THEN Return(t, "nospace")
         ELSE /\ pc' = [pc EXCEPT ![t] = "glob"]
              /\ lock' = t
              /\ UNCHANGED <<req, globbed, chosen, out, obs, result, ran>>
  /\ UNCHANGED <<titleVars, apiVars, cfg, psutil, mainVars, envVars, recVars, cleanVars, fileVars, notified>>

\* self.cfg.buffer_dir.glob("buf-*.ts")
Glob(t) ==
  /\ pc[t] = "glob"
  /\ globbed' = [globbed EXCEPT ![t] = segs]
  /\ pc' = [pc EXCEPT ![t] = "sort"]
  /\ UNCHANGED <<titleVars, apiVars, cfg, psutil, mainVars, envVars, recVars, cleanVars, fileVars, req,
                 chosen, out, obs, result, ran, notified, lock>>

\* sorted(..., key=lambda p: p.stat().st_mtime, reverse=True): stat raises
\* FileNotFoundError for a path unlinked since the glob, and the exception
\* leaves save_clip; if not segs: return None; chosen = ...
Sort(t) ==
  /\ pc[t] = "sort"
  /\ IF ~(globbed[t] \subseteq segs) THEN Return(t, "raised")
     ELSE IF NoSegments(globbed[t]) THEN Return(t, "nosegs")
     ELSE /\ chosen' = [chosen EXCEPT
               ![t] = Chosen(globbed[t], NeededSegments(req[t], cfg))]
          /\ pc' = [pc EXCEPT ![t] = "name"]
          /\ UNCHANGED <<req, globbed, out, obs, result, ran, lock>>
  /\ UNCHANGED <<titleVars, apiVars, cfg, psutil, mainVars, envVars, recVars, cleanVars, fileVars, notified>>

\* now = dt.datetime.now(); active_title = sanitize(...); filename = ...;
\* self.cfg.clips_dir.mkdir(parents=True, exist_ok=True);
\* tempfile.NamedTemporaryFile("w", delete=False, ...): a fresh file, named
\* here after the call that creates it, listing the chosen paths.
\* The clock does not run backwards from one call to the next.
Manifest(t) ==
  /\ pc[t] = "name"
  /\ \E ts \in lastTs..MaxTime, title \in Titles :
       /\ obs' = [obs EXCEPT ![t] = <<ts, Length(req[t], cfg), title>>]
       /\ out' = [out EXCEPT ![t] = OutPath(ts, Length(req[t], cfg), title)]
       /\ lastTs' = ts
  /\ clipsDir' = TRUE
  /\ manifests' = manifests \cup {t}
  /\ globbed' = [globbed EXCEPT ![t] = {}]
  /\ pc' = [pc EXCEPT ![t] = "copy"]
  /\ UNCHANGED <<titleVars, apiVars, cfg, psutil, mainVars, recVars, cleanVars, segs, clips,
                 req, chosen, result, ran, notified, lock>>

\* FFmpeg exits 0 only if it could open every file of the manifest; then
\* "Clip saved", notify(...) and return out_path, by way of the finally.
ConcatOk(t) ==
  /\ Range(chosen[t]) \subseteq segs
  /\ clips' = WriteClip(clips, out[t], "complete")
  /\ notified' = Notify(notified, out[t])
  /\ result' = [result EXCEPT ![t] = "saved"]
  /\ pc' = [pc EXCEPT ![t] = "unlink"]

\* A failed FFmpeg run leaves out_path as it was or leaves a partial file.
ConcatLeaves(t) ==
  \E partial \in BOOLEAN :
    clips' = IF partial THEN WriteClip(clips, out[t], "partial") ELSE clips

\* subprocess.check_call(copy_cmd) returns
CopyOk(t) ==
  /\ pc[t] = "copy"
  /\ ran' = [ran EXCEPT ![t] = Append(@, CopyCmd(t, out[t]))]
  /\ ConcatOk(t)
  /\ UNCHANGED <<titleVars, apiVars, cfg, psutil, mainVars, envVars, recVars, cleanVars, segs, manifests,
                 clipsDir, req, globbed, chosen, out, obs, lock>>

\* subprocess.CalledProcessError: retry with re-encode
CopyFail(t) ==
  /\ pc[t] = "copy"
  /\ ran' = [ran EXCEPT ![t] = Append(@, CopyCmd(t, out[t]))]
  /\ ConcatLeaves(t)
  /\ pc' = [pc EXCEPT ![t] = "reenc"]
  /\ UNCHANGED <<titleVars, apiVars, cfg, psutil, mainVars, envVars, recVars, cleanVars, segs, manifests,
                 clipsDir, req, globbed, chosen, out, obs, result, notified,
                 lock>>

\* check_call raises OSError (FFmpeg cannot be started): only the outer
\* finally runs and the exception leaves save_clip.
CopySpawnError(t) ==
  /\ pc[t] = "copy"
  /\ result' = [result EXCEPT ![t] = "raised"]
  /\ pc' = [pc EXCEPT ![t] = "unlink"]
  /\ UNCHANGED <<titleVars, apiVars, cfg, psutil, mainVars, envVars, recVars, cleanVars, fileVars, req,
                 globbed, chosen, out, obs, ran, notified, lock>>

\* subprocess.check_call(reenc_cmd) returns
ReencOk(t) ==
  /\ pc[t] = "reenc"
  /\ ran' = [ran EXCEPT ![t] = Append(@, ReencCmd(t, out[t]))]
  /\ ConcatOk(t)
  /\ UNCHANGED <<titleVars, apiVars, cfg, psutil, mainVars, envVars, recVars, cleanVars, segs, manifests,
                 clipsDir, req, globbed, chosen, out, obs, lock>>

\* subprocess.CalledProcessError again: "Failed to assemble clip", return None
ReencFail(t) ==
  /\ pc[t] = "reenc"
  /\ ran' = [ran EXCEPT ![t] = Append(@, ReencCmd(t, out[t]))]
  /\ ConcatLeaves(t)
  /\ result' = [result EXCEPT ![t] = "failed"]
  /\ pc' = [pc EXCEPT ![t] = "unlink"]
  /\ UNCHANGED <<titleVars, apiVars, cfg, psutil, mainVars, envVars, recVars, cleanVars, segs, manifests,
                 clipsDir, req, globbed, chosen, out, obs, notified, lock>>

\* check_call raises OSError: the inner and the outer finally run.
ReencSpawnError(t) ==
  /\ pc[t] = "reenc"
  /\ result' = [result EXCEPT ![t] = "raised"]
  /\ pc' = [pc EXCEPT ![t] = "unlink"]
  /\ UNCHANGED <<titleVars, apiVars, cfg, psutil, mainVars, envVars, recVars, cleanVars, fileVars, req,
                 globbed, chosen, out, obs, ran, notified, lock>>

\* Mutant: the finally block also removes the segments the call has used
UnlinkWithSegments(t) ==
  /\ pc[t] = "unlink"
  /\ manifests' = UnlinkManifest(manifests, t)
  /\ segs' = segs \ Range(chosen[t])
  /\ Return(t, result[t])
  /\ UNCHANGED <<titleVars, apiVars, cfg, psutil, mainVars, envVars, recVars,
                 cleanVars, clips, clipsDir, notified>>

\* finally: list_path.unlink(missing_ok=True); then the with block releases
\* the lock and save_clip returns or raises.
Unlink(t) ==
  /\ pc[t] = "unlink"
  /\ manifests' = UnlinkManifest(manifests, t)
  /\ Return(t, result[t])
  /\ UNCHANGED <<titleVars, apiVars, cfg, psutil, mainVars, envVars, recVars, cleanVars, segs, clips,
                 clipsDir, notified>>

\* keyboard.add_hotkey("F4", lambda: self._save(self.default_length)), with
\* default_length = cfg.clip_length
Press(t) == Trigger(t, cfg.clip_length)

\* The steps of a save_clip call that was issued
SaveRun(t) ==
  \/ Acquire(t)
  \/ Glob(t)
  \/ Sort(t)
  \/ Manifest(t)
  \/ CopyOk(t)
  \/ CopyFail(t)
  \/ CopySpawnError(t)
  \/ ReencOk(t)
  \/ ReencFail(t)
  \/ ReencSpawnError(t)
  \/ Unlink(t)

\* The steps of the main thread
MainStep ==
  \/ RecorderStart
  \/ MainThreads
  \/ MainLoopExit
  \/ RecorderStop

\* The steps of a tick of the cleanup thread when no filesystem call fails
CleanupTick ==
  \/ CleanupList
  \/ CleanupCapUnlink
  \/ CleanupDisk
  \/ CleanupLowUnlink
  \/ CleanupWait

\* The steps of the cleanup thread when no filesystem call fails
CleanupStep ==
  \/ CleanupExit
  \/ CleanupTick

\* The steps of the cleanup thread in which a filesystem call raises
CleanupError ==
  \/ CleanupListError
  \/ CleanupCapUnlinkError
  \/ CleanupLowUnlinkError

\* The steps of the status thread
StatusStep ==
  \/ StatusTick
  \/ StatusWait
  \/ StatusExit

\* The program from its start to the shutdown signal: the recorder, its
\* cleanup loop and one save_clip call
Next ==
  \/ Produce
  \/ RecorderStart
  \/ MainThreads
  \/ CleanupTick
  \/ \E d \in Durations : Trigger(1, d)
  \/ \E t \in Savers : SaveRun(t)

Spec == Init /\ [][Next]_vars

\* Hotkey presses in quick succession: the save_clip calls that run while the
\* cleanup loop sleeps in stop_event.wait(5), on the buffer as it is when the
\* first key is pressed
NextPair ==
  \/ Produce /\ (\A t \in Savers : pc[t] = "idle")
  \/ RecorderStart
  \/ MainThreads
  \/ \E t \in Savers : Press(t)
  \/ \E t \in Savers : SaveRun(t)

SpecPair == Init /\ [][NextPair]_vars

\* Start-up and shutdown: main, the capture process, the cleanup loop with
\* failing filesystem calls and the status loop, with no hotkey pressed
NextMain ==
  \/ Produce
  \/ ProcExit
  \/ Signal
  \/ MainStep
  \/ CleanupStep
  \/ CleanupError
  \/ StatusStep

\* Every thread that can take a step takes one, and a process that was sent
\* the kill signal dies; the signal itself comes when it comes.
SpecMain ==
  /\ Init /\ [][NextMain]_vars
  /\ WF_vars(MainStep)
  /\ WF_vars(CleanupStep \/ CleanupError)
  /\ WF_vars(StatusStep)
  /\ WF_vars(ffmpeg = "dying" /\ ProcExit)

\* active_title = sanitize_filename_component(get_active_window_title())
Sanitize ==
  /\ tpc = "given"
  /\ clean' = sanitize_filename_component(raw)
  /\ tpc' = "once"
  /\ UNCHANGED <<raw, again, apiVars, cfg, psutil, mainVars, envVars, recVars,
                 cleanVars, saveVars, fileVars>>

\* The sanitizer applied to a string it returned
SanitizeAgain ==
  /\ tpc = "once"
  /\ again' = sanitize_filename_component(clean)
  /\ tpc' = "twice"
  /\ UNCHANGED <<raw, clean, apiVars, cfg, psutil, mainVars, envVars, recVars,
                 cleanVars, saveVars, fileVars>>

\* The Recorder driven by a caller other than main: start() and stop() in
\* any order, the processes' exits and the threads' ends. The ticks of the
\* cleanup threads are left to SpecMain.
NextApi ==
  \/ ApiStart
  \/ ApiStop
  \/ ProcExit
  \/ (\E i \in DOMAIN earlier : EarlierExit(i))
  \/ CleanupExit
  \/ EarlierThreadExit

SpecApi == Init /\ [][NextApi]_vars

NextTitle ==
  \/ Sanitize
  \/ SanitizeAgain

\* The sanitizer on every title of at most MaxLen characters
SpecTitle == InitTitle /\ [][NextTitle]_vars

\* ================================================================ claims
\* The n newest entries of a listing sorted oldest first
Newest(s, n) == {s[i] : i \in (Len(s) - n + 1)..Len(s)}

\* ch lists, oldest first, the min(m, N) most recently modified paths of G
IsNewestWindow(ch, G, m) ==
  /\ Len(ch) = Min(m, Cardinality(G))
  /\ Range(ch) \subseteq G
  /\ \A i, j \in 1..Len(ch) : i < j => mtime(ch[i]) < mtime(ch[j])
  /\ \A x \in G \ Range(ch), y \in Range(ch) : mtime(x) < mtime(y)

\* The call is between its lock acquisition and its manifest deletion
InAssembly(t) == pc[t] \in {"glob", "sort", "name", "copy", "reenc", "unlink"}

\* The call has listed the buffer directory
HasListed(t) == pc[t] \in {"sort", "name", "copy", "reenc", "unlink"}

\* The cleanup loop has finished a tick and sleeps in stop_event.wait(5)
TickDone == cpc = "wait"

\* The segments the tick that just ended has removed
TickRemoved == Range(csegs) \ segs

\* C1: at most one save_clip call at a time is inside the assembly section,
\* and a call that waits leaves the wait only by taking the free lock: it is
\* never turned away because another call is in progress.
C1_OneAssemblyAtATime ==
  /\ [](\A t, u \in Savers : InAssembly(t) /\ InAssembly(u) => t = u)
  /\ [](\A t \in Savers : InAssembly(t) => lock = t)
  /\ [][\A t \in Savers :
          pc[t] = "wait" /\ pc'[t] # "wait"
            => lock = 0 /\ (pc'[t] = "glob" \/ result'[t] = "nospace")]_vars

\* One call is inside the assembly section while another one waits
C1_Witness ==
  \E t, u \in Savers : t # u /\ InAssembly(t) /\ pc[u] = "wait"

\* C2 as stated: two save_clip calls that both return a clip leave two
\* distinct output files, whatever seconds the two calls observe.
C2_TwoDistinctFiles ==
  \A t, u \in Savers :
    t # u /\ result[t] = "saved" /\ result[u] = "saved" /\ pc[t] = "done"
      /\ pc[u] = "done" => out[t] # out[u]

\* C2 amended: a manifest in the buffer directory belongs to the one call
\* holding the lock; two calls that both returned a clip each left their file
\* in the clips directory, and the two files are distinct when the calls
\* observed a different second, duration or title.
C2_DistinctWhenNamesDiffer ==
  /\ \A m \in manifests : lock = m
  /\ \A t, u \in Savers :
       t # u /\ result[t] = "saved" /\ result[u] = "saved" /\ pc[t] = "done"
         /\ pc[u] = "done"
       => /\ out[t] \in DOMAIN clips /\ out[u] \in DOMAIN clips
          /\ obs[t] # obs[u] => out[t] # out[u]

\* Two calls have returned clips named after different seconds
C2_Witness ==
  \E t, u \in Savers :
    /\ t # u /\ pc[t] = "done" /\ pc[u] = "done"
    /\ result[t] = "saved" /\ result[u] = "saved"
    /\ obs[t][1] # obs[u][1] /\ Cardinality(DOMAIN clips) >= 2

C4_InvalidDurationRejected ==
  \A t \in Savers : req[t] <= 0 => ~HasListed(t)

\* C5: a tick whose low-disk branch ran on a listing of L segments removed
\* max(1, L \div 10) segments on top of those its capacity prune removed (all
\* L of them when there are not that many).
C5_LowPruneIsAdditional ==
  TickDone /\ clow
    => Cardinality(TickRemoved)
         = Min(Len(csegs),
               Max(0, Len(csegs) - capacity)
                 + Max(1, Len(csegs) \div LowPruneDivisor))

\* C6: no segment a save_clip call has chosen is unlinked before the call's
\* first FFmpeg run.
C6_ChosenNotPruned ==
  \A t \in Savers :
    pc[t] \in {"name", "copy"} => Range(chosen[t]) \subseteq segs

\* C7: a tick that listed at least ceil(clip_length / segment_time) segments
\* leaves at least that many, the newest ones.
C7_TickKeepsClipLength ==
  TickDone /\ Len(csegs) >= CeilDiv(cfg.clip_length, cfg.segment_time)
    => Newest(csegs, CeilDiv(cfg.clip_length, cfg.segment_time)) \subseteq segs

\* C8: after a tick without low-disk prune on a directory nobody else
\* changed, a listing of K > capacity segments is cut down to exactly the
\* capacity newest ones, and a listing of at most capacity segments is left
\* as it is (the loop deletes nothing more).
C8_CapacityFixedPoint ==
  TickDone /\ ~clow /\ segs \subseteq Range(csegs)
    => IF Len(csegs) > capacity
         THEN segs = Newest(csegs, capacity) /\ Cardinality(segs) = capacity
         ELSE segs = Range(csegs)

\* A tick has cut a static directory of more than capacity segments
C8_Witness ==
  /\ TickDone /\ ~clow /\ segs \subseteq Range(csegs)
  /\ capacity > 0 /\ Len(csegs) > capacity
  /\ Cardinality(segs) = capacity

\* C9: the capacity of the cleanup loop is ceil(clip_length / segment_time) * 3.
C9_CapacityIsCeiling ==
  cpc # "idle"
    => capacity = CeilDiv(cfg.clip_length, cfg.segment_time) * SafetyFactor

\* C10: once save_clip has returned or raised, the manifest it created is
\* gone from the buffer directory.
C10_ManifestGone ==
  \A t \in Savers : pc[t] = "done" => t \notin manifests

\* A call whose two FFmpeg runs both failed has returned
C10_Witness ==
  \E t \in Savers : pc[t] = "done" /\ result[t] = "failed" /\ manifests = {}

\* The calls that have produced a clip
Saved == {t \in Savers : result[t] = "saved"}

\* How many times the log announces the path
Announced(path) == Cardinality({i \in DOMAIN notified : notified[i] = path})

\* C11: the re-encode command is run only by a call whose stream-copy command
\* has just failed, with the manifest and the output path of that command,
\* and a failed stream copy always leads to the re-encode; a re-encode that
\* succeeds announces the output path as the stream copy would, and the call
\* returns that path.
C11_ReencodeAfterFailedCopy ==
  /\ [](\A t \in Savers :
          /\ pc[t] = "reenc" => ran[t] = <<CopyCmd(t, out[t])>> /\ t \in manifests
          /\ pc[t] = "done" /\ result[t] = "saved" => out[t] \in Range(notified))
  /\ [][\A t \in Savers :
          /\ Len(ran'[t]) > Len(ran[t]) /\ ran'[t][Len(ran'[t])][1] = "reenc"
               => /\ pc[t] = "reenc" /\ result[t] # "saved"
                  /\ ran[t] = <<CopyCmd(t, out[t])>>
                  /\ ran'[t][2][2] = ran[t][1][2]
                  /\ ran'[t][2][3] = ran[t][1][3]
          /\ Len(ran[t]) = 0 /\ Len(ran'[t]) = 1 /\ result'[t] # "saved"
               => pc'[t] = "reenc"
          /\ pc[t] = "reenc" /\ result'[t] = "saved"
               => /\ notified' = Append(notified, ran[t][1][3])
                  /\ out'[t] = ran[t][1][3]]_vars

\* A call saved its clip by the re-encode after its stream copy failed
C11_Witness ==
  \E t \in Savers :
    /\ pc[t] = "unlink" /\ result[t] = "saved"
    /\ Len(ran[t]) = 2 /\ ran[t][1][1] = "copy" /\ ran[t][2][1] = "reenc"
    /\ notified # <<>>

\* C12: the log holds one 'Clip saved' notification for each call that
\* produced a clip and none for any other call; a call whose stream copy and
\* re-encode both failed ends as failed and returns no path.
C12_NotifiedOncePerClip ==
  /\ [](/\ Len(notified) = Cardinality(Saved)
        /\ \A t \in Saved :
             Announced(out[t]) = Cardinality({u \in Saved : out[u] = out[t]})
        /\ \A t \in Savers :
             pc[t] = "done" /\ result[t] # "saved" => out[t] = NoPath)
  /\ [][\A t \in Savers :
          pc[t] = "reenc" /\ Len(ran'[t]) = 2 /\ result'[t] # "saved"
            => result'[t] = "failed" /\ notified' = notified]_vars

\* One call returned a clip and another failed after both FFmpeg runs failed
C12_Witness ==
  \E t, u \in Savers :
    /\ pc[t] = "done" /\ result[t] = "saved"
    /\ pc[u] = "done" /\ result[u] = "failed"
    /\ Len(notified) = 1

\* C13: a call that has not got past the listing has no manifest, no output
\* path and has run no FFmpeg; a call ends for lack of space straight from
\* the lock acquisition, before any listing; a call whose listing is empty
\* ends there as failed; and neither ending creates or changes a file.
C13_FailsBeforeAnyFile ==
  /\ [](\A t \in Savers :
          pc[t] \in {"wait", "glob", "sort"}
            => t \notin manifests /\ ran[t] = <<>> /\ out[t] = NoPath)
  /\ [][\A t \in Savers :
          /\ pc[t] # "done" /\ pc'[t] = "done" /\ result'[t] = "nospace"
               => pc[t] = "wait" /\ UNCHANGED fileVars
          /\ pc[t] # "done" /\ pc'[t] = "done" /\ result'[t] = "nosegs"
               => pc[t] = "sort" /\ UNCHANGED fileVars
          /\ pc[t] = "sort" /\ globbed[t] = {} /\ pc'[t] # "sort"
               => pc'[t] = "done" /\ result'[t] = "nosegs"
                    /\ UNCHANGED fileVars]_vars

\* One call ended for lack of space and another on an empty buffer, and
\* there is no manifest and no clip
C13_Witness ==
  \E t, u \in Savers :
    /\ pc[t] = "done" /\ result[t] = "nospace"
    /\ pc[u] = "done" /\ result[u] = "nosegs"
    /\ manifests = {} /\ DOMAIN clips = {}

\* C14: a call whose listing lost a file before the stat, and still holds
\* another one, goes on to assemble from the files that remain.
C14_VanishedFileSkipped ==
  [][\A t \in Savers :
       pc[t] = "sort" /\ ~(globbed[t] \subseteq segs)
         /\ globbed[t] \cap segs # {} /\ pc'[t] # "sort"
       => pc'[t] = "name" /\ Range(chosen'[t]) \subseteq (globbed[t] \cap segs)
            /\ chosen'[t] # <<>>]_vars

\* Everything main started has stopped and main has returned 0
AllStopped ==
  mpc = "returned" /\ cpc = "exited" /\ spc = "exited" /\ ~Alive(ffmpeg)

\* A recorder start() was never called on
NeverStarted(r) == r.proc = "none" /\ ~r.stop_event /\ r.ffmpeg = "absent"

\* A recorder stop() has returned on
AlreadyStopped(r) == r.proc = "none" /\ r.stop_event

\* C15 as stated: once the shutdown signal is set, main returns 0 and the
\* two loops and the capture process stop, and a wait that ends after the
\* signal ends with the loop's stop event set, so that the loop exits there
\* without another tick.
C15_StopWithinCurrentWait ==
  /\ shutdown ~> AllStopped
  /\ [][shutdown
          => /\ spc = "loop" => spc' \in {"loop", "exited"}
             /\ cpc = "wait" /\ cpc' # "wait" => stop_event']_vars

\* C15 amended: the same, except that the cleanup loop begins no tick once
\* the recorder's own stop event is set, which main does after it has seen
\* the shutdown signal.
C15_StopAfterSignal ==
  /\ shutdown ~> AllStopped
  /\ [](mpc = "returned" => shutdown /\ stop_event)
  /\ [][/\ shutdown /\ spc = "loop" => spc' \in {"loop", "exited"}
        /\ stop_event /\ cpc = "loop" => cpc' \in {"loop", "exited"}]_vars

\* After a shutdown signal everything has stopped and main has returned
C15_Witness == shutdown /\ AllStopped /\ segs # {}

\* C16 as stated: when stop() has returned, the capture process is no
\* longer running.
C16_StoppedMeansNotRunning ==
  mpc = "returned" => proc = "none" /\ ~Alive(ffmpeg)

\* C16 amended: stop() returns; when it has, the recorder holds no process
\* and its stop event is set, and the capture process has exited or has been
\* sent the kill signal; a process that was running when stop() was called
\* is never left running unsignalled.
C16_StopReturnsAfterKill ==
  /\ mpc = "finally" ~> mpc = "returned"
  /\ [](mpc = "returned"
          => proc = "none" /\ stop_event /\ ffmpeg \in {"dying", "exited"})
  /\ [][mpc = "finally" /\ mpc' = "returned" /\ Alive(ffmpeg)
          => ffmpeg' \in {"dying", "exited"} /\ proc' = "none"]_vars

\* stop() has returned after the timeout and the kill, and the process has
\* not died yet
C16_Witness == mpc = "returned" /\ ffmpeg = "dying" /\ proc = "none"

\* C17 as stated: stop() changes nothing on a recorder that was never
\* started or is already stopped, and a second stop() changes nothing.
C17_StopIsNoOp ==
  \A a, b \in BOOLEAN :
    /\ NeverStarted(RecState) \/ AlreadyStopped(RecState)
         => Stop(RecState, a) = RecState
    /\ Stop(Stop(RecState, a), b) = Stop(RecState, a)

\* C17 amended: stop() changes nothing on a recorder that is already
\* stopped, on a recorder that was never started it sets the stop event and
\* nothing else, and a second stop() changes nothing.
C17_StopIdempotent ==
  \A a, b \in BOOLEAN :
    /\ AlreadyStopped(RecState) => Stop(RecState, a) = RecState
    /\ NeverStarted(RecState)
         => Stop(RecState, a) = [RecState EXCEPT !.stop_event = TRUE]
    /\ Stop(Stop(RecState, a), b) = Stop(RecState, a)

\* stop() has returned on a recorder whose process still has to die: a
\* second stop() would find the recorder already stopped
C17_Witness ==
  /\ mpc = "returned" /\ AlreadyStopped(RecState) /\ Alive(ffmpeg)
  /\ cpc = "exited"

\* C18: the cleanup thread ends only at its loop test and only with the stop
\* event set; a tick in which an exception was swallowed is followed by the
\* next loop test.
C18_CleanupSurvivesErrors ==
  /\ [][cpc # "exited" /\ cpc' = "exited" => cpc = "loop" /\ stop_event]_vars
  /\ [](cerr => cpc # "exited")
  /\ cerr ~> (cpc = "loop" /\ ~cerr)

\* The loop sleeps after a tick in which an unlink raised, and goes on
C18_Witness ==
  cerr /\ cpc = "wait" /\ ~stop_event /\ csegs # <<>> /\ Range(csegs) \subseteq segs

\* The characters of [A-Za-z0-9._-]
InClass(c) == c \in AsciiWord \cup {".", "-"}

\* C19: the sanitizer's result has at most 80 characters, all of them in
\* [A-Za-z0-9._-].
C19_OnlyClassCharacters ==
  tpc \in {"once", "twice"}
    => Len(clean) <= NameLimit /\ \A i \in 1..Len(clean) : InClass(clean[i])

\* C20: the sanitizer applied to its own result returns that result.
C20_SanitizeIdempotent ==
  tpc = "twice" => again = clean

\* C21: the sanitizer never returns the empty string; when nothing is left
\* of its input it returns the placeholder "untitled".
C21_NeverEmpty ==
  tpc \in {"once", "twice"}
    => /\ clean # <<>>
       /\ RemoveOthers(Strip(raw)) = <<>> => clean = Untitled

\* C22: a tick whose listing meets a stat failure still prunes a buffer that
\* holds more segments than a capacity of at least one, and a tick in which
\* the unlink of one selected segment fails goes on to the other segments it
\* selected.
C22_FailureSparesOthers ==
  [][/\ cpc = "loop" /\ cpc' \notin {"loop", "exited"}
          /\ capacity > 0 /\ Cardinality(segs) > capacity
        => cpc' = "capdel" /\ cq' # <<>>
     /\ cpc \in {"capdel", "lowdel"} /\ cq' # cq /\ Head(cq) \in segs'
        => cq' = Tail(cq)]_vars

\* C23: no step of a save_clip call, whatever the call's outcome, removes or
\* adds a segment, touches the capture process or the cleanup loop, or
\* removes a file other than the manifest the call created.
C23_SaveLeavesBufferAlone ==
  /\ [][\A t \in Savers :
          pc'[t] # pc[t] /\ pc[t] # "idle"
            => /\ segs' = segs
               /\ proc' = proc /\ ffmpeg' = ffmpeg
               /\ cpc' = cpc /\ stop_event' = stop_event
               /\ (manifests \ manifests') \subseteq {t}
               /\ DOMAIN clips \subseteq DOMAIN clips']_vars
  /\ [](\A t \in Savers :
          pc[t] = "done" => Alive(ffmpeg) /\ cpc \notin {"idle", "exited"})

\* A call whose two FFmpeg runs failed has returned; the segments it chose
\* from are there and the recorder runs
C23_Witness ==
  \E t \in Savers :
    /\ pc[t] = "done" /\ result[t] = "failed"
    /\ Cardinality(segs) >= 2 /\ nextSeg = Cardinality(segs) + 1
    /\ Alive(ffmpeg) /\ cpc = "wait"

\* The capture processes of this Recorder that no terminate() or kill() has
\* reached and that have not ended
RunningCount ==
  Cardinality({i \in DOMAIN earlier : earlier[i] = "running"})
    + (IF ffmpeg = "running" THEN 1 ELSE 0)

\* C24: whatever start() and stop() calls a Recorder has had, at most one of
\* the capture processes it started is running, and once stop() has
\* returned none of them is running that stop() has not terminated or killed.
C24_OneCaptureProcess ==
  /\ RunningCount <= 1
  /\ AlreadyStopped(RecState) => RunningCount = 0

====
